---- MODULE Spec2Model ----
(***************************************************************************)
(* Model of the multimodal embedding and retrieval layer:                  *)
(*   haystack/nodes/retriever/multimodal.py                                *)
(*   haystack/modeling/model/multimodal_language_model.py                  *)
(*                                                                         *)
(* Conventions.  A Python str is a sequence of one-character strings, so   *)
(* that slicing, joining and prefixing are computed and not assumed.  A    *)
(* model identifier is the sequence of its '/'-separated segments.  Every  *)
(* call outcome is a record of one shape: kind = "ok" and the rows, or     *)
(* kind = the Python exception class with its message data.  Tensors are   *)
(* abstracted to one row per input item: the model that produced it, the   *)
(* payload it was computed from, and its width (shape[-1]); a model is a   *)
(* deterministic function of its input.                                    *)
(*                                                                         *)
(* The embedder state is the one MultiModalEmbedder.__init__ assigns       *)
(* (models, feature_extractors, batch_size, embed_meta_fields), with the   *)
(* loaders resolved as multimodal_language_model.py resolves them and a    *)
(* single compute device.                                                  *)
(***************************************************************************)
EXTENDS Integers, Sequences, FiniteSets, TLC

VARIABLES
    embedder,       \* SpecEmbed: the MultiModalEmbedder under call
    documents,      \* SpecEmbed: the documents argument of embed
    embedOut,       \* SpecEmbed: batch size -> outcome of embed(documents, batch_size), once called
    retriever,      \* SpecRetrieve / SpecConstruct: the MultiModalRetriever object
    call,           \* SpecRetrieve: the arguments the caller uses
    batchOut,       \* SpecRetrieve: observation of retrieve_batch on call
    singleOut,      \* SpecRetrieve: observation of retrieve on call
    ctorArgs,       \* SpecConstruct / SpecRetrieve: arguments of MultiModalRetriever.__init__
    lm,             \* SpecForward: the wrapper variant receiving forward
    given,          \* SpecForward: the keyword names supplied to forward
    fwdOut,         \* SpecForward: observation of forward (outcome, underlying model calls)
    invoked,        \* SpecEmbed: batch size -> the model invocations embed made, in order
    dataOut,        \* SpecConvert: observation of _docs_to_data on documents
    convOut,        \* SpecConvert: observation of the converter of the first document
    loadIn,         \* SpecLoad: the arguments of get_mm_language_model and what the hub resolves
    loadOut,        \* SpecLoad: observation of get_mm_language_model
    rankIn,         \* SpecRank: the arguments of custom_query_by_embedding and the store's documents
    rankOut         \* SpecRank: observation of custom_query_by_embedding

vars == <<embedder, documents, embedOut, retriever, call, batchOut, singleOut,
          ctorArgs, lm, given, fwdOut, invoked, dataOut, convOut, loadIn, loadOut,
          rankIn, rankOut>>

-----------------------------------------------------------------------------
(* Bounds *)

MaxDocs == 3        \* longest documents list passed to embed
MaxBatch == 3       \* largest batch_size passed to embed
MaxQueries == 2     \* longest queries list passed to retrieve_batch
MaxFilterKeys == 2  \* most keys in one filter mapping
MaxStrLen == 2      \* longest text content passed to the text converter
MaxConvDocs == 2    \* longest documents list passed to _docs_to_data
MaxCandidates == 3  \* most documents the store returns to custom_query_by_embedding

-----------------------------------------------------------------------------
(* Python values *)

RECURSIVE Join(_, _)
\* sep.join(parts) for a list of str
Join(parts, sep) ==
    IF Len(parts) = 0 THEN <<>>
    ELSE IF Len(parts) = 1 THEN parts[1]
    ELSE parts[1] \o sep \o Join(Tail(parts), sep)

RECURSIVE Flatten(_)
\* [cell for row in rows for cell in row]
Flatten(rows) ==
    IF Len(rows) = 0 THEN <<>> ELSE rows[1] \o Flatten(Tail(rows))

PyNone == [py |-> "None", items |-> <<>>, str |-> ""]

PyDict(items) == [py |-> "dict", items |-> items, str |-> ""]

PyStr(str) == [py |-> "str", items |-> <<>>, str |-> str]

\* d1 | d2 of two dicts given as lists of items: the keys of d1 in their
\* order, then the new keys of d2, every value of d2 winning
DictMerge(d1, d2) ==
    [i \in 1..Len(d1) |->
        IF \E j \in 1..Len(d2) : d2[j].key = d1[i].key
        THEN d2[CHOOSE j \in 1..Len(d2) : d2[j].key = d1[i].key]
        ELSE d1[i]]
    \o SelectSeq(d2, LAMBDA item : \A i \in 1..Len(d1) : d1[i].key # item.key)

Ok(rows) ==
    [kind |-> "ok", rows |-> rows, msg |-> "", types |-> <<>>, sizes |-> <<>>]

Raise(cls, msg, types, sizes) ==
    [kind |-> cls, rows |-> <<>>, msg |-> msg, types |-> types, sizes |-> sizes]

-----------------------------------------------------------------------------
(* haystack/modeling/model/multimodal_language_model.py *)

TextLanguageModel_expected_inputs ==
    [mandatory |-> {"input_ids", "token_type_ids", "attention_mask"}, optional |-> {}]

TextLanguageModelPlusPooler_expected_inputs ==
    [mandatory |-> {"input_ids", "token_type_ids", "attention_mask"}, optional |-> {}]

ImageLanguageModel_expected_inputs ==
    [mandatory |-> {"pixel_values"}, optional |-> {"bool_masked_pos", "head_mask"}]

Wrappers == {"TextLanguageModel", "TextLanguageModelPlusPooler", "ImageLanguageModel"}

expected_inputs(wrapper) ==
    CASE wrapper = "TextLanguageModel" -> TextLanguageModel_expected_inputs
      [] wrapper = "TextLanguageModelPlusPooler" -> TextLanguageModelPlusPooler_expected_inputs
      [] wrapper = "ImageLanguageModel" -> ImageLanguageModel_expected_inputs

\* a plausible slip: "or" in place of "and" in the validation
InputsAcceptedOr(mandatory_args, all_args, given_args) ==
    (mandatory_args \subseteq given_args) \/ (given_args \subseteq all_args)

\* given_args >= mandatory_args and given_args <= all_args
InputsAccepted(mandatory_args, all_args, given_args) ==
    (mandatory_args \subseteq given_args) /\ (given_args \subseteq all_args)

\* MultiModalLanguageModel.forward: the outcome and the number of calls of
\* the underlying model made through _forward
forward(wrapper, given_args) ==
    LET mandatory_args == expected_inputs(wrapper).mandatory
        optional_args == expected_inputs(wrapper).optional
        all_args == mandatory_args \cup optional_args
    IN  IF ~InputsAccepted(mandatory_args, all_args, given_args)
        THEN [kind |-> "ModelingError", supplied |-> given_args, expected |-> all_args,
              mandatory |-> mandatory_args, model_calls |-> 0]
        ELSE [kind |-> "ok", supplied |-> given_args, expected |-> all_args,
              mandatory |-> mandatory_args, model_calls |-> 1]

HUGGINGFACE_TO_HAYSTACK ==
    [key \in {"AutoModel", "Data2VecTextForQuestionAnswering",
              "Data2VecVisionForImageClassification"} |->
        IF key = "Data2VecVisionForImageClassification"
        THEN "ImageLanguageModel" ELSE "TextLanguageModel"]

\* key.lower() of the three registry keys
Lower(key) ==
    CASE key = "AutoModel" -> "automodel"
      [] key = "Data2VecTextForQuestionAnswering" -> "data2vectextforquestionanswering"
      [] key = "Data2VecVisionForImageClassification" -> "data2vecvisionforimageclassification"

HUGGINGFACE_CAPITALIZE ==
    [family \in {"data2vec-text", "data2vec-vision"}
                \cup {Lower(k) : k \in DOMAIN HUGGINGFACE_TO_HAYSTACK} |->
        CASE family = "data2vec-text" -> " Data2VecTextForQuestionAnswering"
          [] family = "data2vec-vision" -> "Data2VecVisionForImageClassification"
          [] OTHER -> CHOOSE k \in DOMAIN HUGGINGFACE_TO_HAYSTACK : Lower(k) = family]

\* the keys of HUGGINGFACE_TO_HAYSTACK in dict order
RegistryKeys ==
    <<"AutoModel", "Data2VecTextForQuestionAnswering", "Data2VecVisionForImageClassification">>

\* HUGGINGFACE_DEFAULT_MODEL_PARAMS.get(model_type, {})
HUGGINGFACE_DEFAULT_MODEL_PARAMS(model_type) ==
    IF model_type = "Data2VecVisionForImageClassification"
    THEN << [key |-> "add_pooling_layer", value |-> "True"] >>
    ELSE <<>>

\* str.lower() of the family names a configuration reports
StrLower(str) ==
    CASE str \in DOMAIN HUGGINGFACE_TO_HAYSTACK -> Lower(str)
      [] str = "Data2Vec-Vision" -> "data2vec-vision"
      [] str = "BERT" -> "bert"
      [] OTHER -> str

\* The checkpoints the loader collaborator can resolve: the (lower-case)
\* model_type its configuration reports and the width of the vectors it produces.
Checkpoints ==
    << [id |-> <<"sentence-transformers", "all-MiniLM-L6-v2">>, model_type |-> "bert", output_dims |-> 384],
       [id |-> <<"bert-base-uncased">>, model_type |-> "bert", output_dims |-> 768],
       [id |-> <<"facebook", "data2vec-vision-base">>, model_type |-> "data2vec-vision", output_dims |-> 768],
       [id |-> <<"local", "data2vec-vision-small">>, model_type |-> "data2vec-vision", output_dims |-> 512],
       [id |-> <<"facebook", "data2vec-text-base">>, model_type |-> "data2vec-text", output_dims |-> 768] >>

Checkpoint(id) ==
    LET i == CHOOSE j \in 1..Len(Checkpoints) : Checkpoints[j].id = id IN Checkpoints[i]

\* AutoConfig.from_pretrained(model_name): the configuration of a known checkpoint
AutoConfig_from_pretrained(id) ==
    [model_type |-> PyStr(Checkpoint(id).model_type), output_dims |-> Checkpoint(id).output_dims]

NoModel ==
    [loaded |-> FALSE, id |-> <<>>, self_contained |-> FALSE, wrapper |-> "", output_dims |-> 0]

\* the log record of "if not config.model_type: logger.error(...)"
ConfigLog(pretrained_model_name_or_path, config) ==
    IF config.model_type.py = "None" \/ config.model_type.str = ""
    THEN << [level |-> "error", text |-> "Model type not understood", name |-> pretrained_model_name_or_path] >>
    ELSE <<>>

\* HUGGINGFACE_CAPITALIZE.get(config.model_type.lower(), "AutoModel")
ResolveModelType(config) ==
    IF StrLower(config.model_type.str) \in DOMAIN HUGGINGFACE_CAPITALIZE
    THEN HUGGINGFACE_CAPITALIZE[StrLower(config.model_type.str)]
    ELSE "AutoModel"

\* a plausible slip: an unregistered key is given the text wrapper
LanguageModelClassOrText(model_type) ==
    IF model_type \in DOMAIN HUGGINGFACE_TO_HAYSTACK
    THEN HUGGINGFACE_TO_HAYSTACK[model_type]
    ELSE "TextLanguageModel"

\* HUGGINGFACE_TO_HAYSTACK.get(model_type)
LanguageModelClass(model_type) ==
    IF model_type \in DOMAIN HUGGINGFACE_TO_HAYSTACK
    THEN HUGGINGFACE_TO_HAYSTACK[model_type]
    ELSE "None"

\* MultiModalLanguageModel.__init__: the wrapper object and the
\* from_pretrained call that loads its weights
MultiModalLanguageModel(language_model_class, pretrained_model_name_or_path, model_type, model_kwargs) ==
    [class |-> language_model_class,
     model_type |-> model_type,
     from_pretrained |->
        [model_class |-> model_type, name |-> pretrained_model_name_or_path,
         model_params |-> DictMerge(HUGGINGFACE_DEFAULT_MODEL_PARAMS(model_type), model_kwargs)]]

LoadFailure(cls, msg, pretrained_model_name_or_path, model_type, supported, logs) ==
    [kind |-> cls, msg |-> msg, name |-> pretrained_model_name_or_path,
     model_type |-> model_type, supported |-> supported, logs |-> logs,
     instantiated |-> <<>>, model |-> NoModel]

\* get_mm_language_model, given the configuration AutoConfig.from_pretrained
\* returns for the identifier (<<>> is the empty identifier; model_kwargs is
\* a list of items, <<>> for None): the wrapper instance and the log records
\* written, or the error raised
get_mm_language_model(pretrained_model_name_or_path, config, model_kwargs) ==
    IF Len(pretrained_model_name_or_path) = 0
    THEN LoadFailure("ValueError", "is not a valid pretrained_model_name_or_path parameter",
                     pretrained_model_name_or_path, "", <<>>, <<>>)
    ELSE IF config.model_type.py = "None"
    THEN \* config.model_type.lower() on None
         LoadFailure("AttributeError", "'NoneType' object has no attribute 'lower'",
                     pretrained_model_name_or_path, "", <<>>,
                     ConfigLog(pretrained_model_name_or_path, config))
    ELSE IF LanguageModelClass(ResolveModelType(config)) = "None"
    THEN LoadFailure("ValueError", "is not supported by Haystack or was not correctly identified",
                     pretrained_model_name_or_path, ResolveModelType(config), RegistryKeys,
                     ConfigLog(pretrained_model_name_or_path, config))
    ELSE [kind |-> "ok", msg |-> "", name |-> pretrained_model_name_or_path,
          model_type |-> ResolveModelType(config), supported |-> <<>>,
          logs |-> ConfigLog(pretrained_model_name_or_path, config)
                   \o << [level |-> "info", text |-> "LOADING MODEL",
                           name |-> pretrained_model_name_or_path] >>,
          instantiated |->
             << MultiModalLanguageModel(LanguageModelClass(ResolveModelType(config)),
                                        pretrained_model_name_or_path,
                                        ResolveModelType(config), model_kwargs) >>,
          model |-> [loaded |-> TRUE, id |-> pretrained_model_name_or_path,
                     self_contained |-> FALSE,
                     wrapper |-> LanguageModelClass(ResolveModelType(config)),
                     output_dims |-> config.output_dims]]

\* get_sentence_tranformers_model: a self-contained SentenceTransformer
get_sentence_tranformers_model(pretrained_model_name_or_path) ==
    [kind |-> "ok", model_type |-> "SentenceTransformer",
     model |-> [loaded |-> TRUE, id |-> pretrained_model_name_or_path,
                self_contained |-> TRUE, wrapper |-> "SentenceTransformer",
                output_dims |-> Checkpoint(pretrained_model_name_or_path).output_dims]]

-----------------------------------------------------------------------------
(* haystack/nodes/retriever/multimodal.py: converters and MultiModalEmbedder *)

\* get_args(ContentTypes), in declaration order
ContentTypes == <<"text", "table", "image">>

KnownTypes == {ContentTypes[i] : i \in 1..Len(ContentTypes)}

CAN_EMBED_META == {"text", "table"}

NoFrame == [columns |-> <<>>, values |-> <<>>]

\* Document(content=..., content_type=..., meta=...); a table document
\* carries its DataFrame in frame, every other document its str in content
Document(content, content_type) ==
    [content_type |-> content_type, content |-> content, frame |-> NoFrame, meta |-> <<>>]

\* doc.content[:-1] if doc.content[-1] == "?" else doc.content
ConvertText(doc) ==
    IF Len(doc.content) = 0
    THEN [kind |-> "IndexError", data |-> <<>>]
    ELSE IF doc.content[Len(doc.content)] = "?"
         THEN [kind |-> "ok", data |-> SubSeq(doc.content, 1, Len(doc.content) - 1)]
         ELSE [kind |-> "ok", data |-> doc.content]

\* " ".join(columns + [cell for row in values for cell in row])
ConvertTable(doc) ==
    [kind |-> "ok", data |-> Join(doc.frame.columns \o Flatten(doc.frame.values), <<" ">>)]

\* Image.open(doc.content): the decoded image of the referenced file
ConvertImage(doc) ==
    [kind |-> "ok", data |-> <<"<PIL.Image>">> \o doc.content]

DOCUMENT_CONVERTERS(doc) ==
    CASE doc.content_type = "text" -> ConvertText(doc)
      [] doc.content_type = "table" -> ConvertTable(doc)
      [] doc.content_type = "image" -> ConvertImage(doc)

\* " ".join(doc.meta or []): joining a dict joins its keys
MetaPrefix(doc) ==
    Join([i \in 1..Len(doc.meta) |-> doc.meta[i].key], <<" ">>)

\* a plausible slip: the content type is not tested against CAN_EMBED_META
PayloadAnyType(embed_meta_fields, doc, data) ==
    IF Len(embed_meta_fields) > 0
    THEN IF Len(MetaPrefix(doc)) > 0 THEN MetaPrefix(doc) \o <<" ">> \o data ELSE data
    ELSE data

\* the payload _docs_to_data appends for one converted document
Payload(embed_meta_fields, doc, data) ==
    IF Len(embed_meta_fields) > 0 /\ doc.content_type \in CAN_EMBED_META
    THEN IF Len(MetaPrefix(doc)) > 0 THEN MetaPrefix(doc) \o <<" ">> \o data ELSE data
    ELSE data

EmptyData == [t \in KnownTypes |-> <<>>]

RECURSIVE DocsToDataSkipUnknown(_, _, _)
\* a plausible slip: documents of an unknown content type are skipped
DocsToDataSkipUnknown(embed_meta_fields, docs, docs_data) ==
    IF Len(docs) = 0 THEN [kind |-> "ok", data |-> docs_data, types |-> <<>>]
    ELSE LET doc == docs[1] IN
         IF doc.content_type \notin KnownTypes
         THEN DocsToDataSkipUnknown(embed_meta_fields, Tail(docs), docs_data)
         ELSE LET conv == DOCUMENT_CONVERTERS(doc) IN
              IF conv.kind # "ok"
              THEN [kind |-> conv.kind, data |-> EmptyData, types |-> <<doc.content_type>>]
              ELSE DocsToDataSkipUnknown(embed_meta_fields, Tail(docs),
                       [docs_data EXCEPT ![doc.content_type] =
                           Append(@, Payload(embed_meta_fields, doc, conv.data))])

RECURSIVE DocsToData(_, _, _)
\* the loop of _docs_to_data over the documents of one batch
DocsToData(embed_meta_fields, docs, docs_data) ==
    IF Len(docs) = 0 THEN [kind |-> "ok", data |-> docs_data, types |-> <<>>]
    ELSE LET doc == docs[1] IN
         IF doc.content_type \notin KnownTypes
         THEN [kind |-> "MultiModalRetrieverError", data |-> EmptyData,
               types |-> <<doc.content_type>> \o ContentTypes]
         ELSE LET conv == DOCUMENT_CONVERTERS(doc) IN
              IF conv.kind # "ok"
              THEN [kind |-> conv.kind, data |-> EmptyData, types |-> <<doc.content_type>>]
              ELSE DocsToData(embed_meta_fields, Tail(docs),
                       [docs_data EXCEPT ![doc.content_type] =
                           Append(@, Payload(embed_meta_fields, doc, conv.data))])

\* MultiModalEmbedder._docs_to_data
_docs_to_data(self, docs) == DocsToData(self.embed_meta_fields, docs, EmptyData)

\* the keys of the returned dict, {key: values ... if values}, in dict order
PresentTypes(data) ==
    SelectSeq(ContentTypes, LAMBDA t : Len(data[t]) > 0)

\* the slot names SAMPLES_BY_DATATYPE[data_type].get_features yields
FeatureNames(data_type) ==
    IF data_type = "image" THEN {"pixel_values"}
    ELSE {"input_ids", "token_type_ids", "attention_mask"}

\* the tensor a model returns for a list of inputs: one row per input
ModelRows(model, inputs) ==
    [i \in 1..Len(inputs) |->
        [model |-> model.id, input |-> inputs[i], dims |-> model.output_dims]]

\* "if not self.feature_extractors.get(data_type, None)" of the inner loop:
\* the method a model is invoked through while the outer loop is at data_type
InvokedMethod(self, data_type) ==
    IF data_type \notin self.feature_extractors THEN "encode" ELSE "forward"

\* one pass of the loop "for key, inputs in features_by_type.items()" while
\* the outer loop is at data_type
ModelOutput(self, key, data_type, data) ==
    LET model == self.models[key] IN
    IF ~model.loaded
    THEN Raise("ModelingError", "no such model was initialized", <<key>>, <<>>)
    ELSE IF InvokedMethod(self, data_type) = "encode"
    THEN \* self.models[key].encode(inputs, convert_to_tensor=True)
         IF model.self_contained THEN Ok(ModelRows(model, data[key]))
         ELSE Raise("AttributeError", "encode", <<key>>, <<>>)
    ELSE \* self.models[key].forward(**inputs)
         IF model.self_contained
         THEN Raise("TypeError", "argument after ** must be a mapping", <<key>>, <<>>)
         ELSE IF forward(model.wrapper, FeatureNames(key)).kind # "ok"
              THEN Raise("ModelingError", "input parameters do not match", <<key>>, <<>>)
              ELSE Ok(ModelRows(model, data[key]))

RECURSIVE ConcatRows(_)
ConcatRows(blocks) ==
    IF Len(blocks) = 0 THEN <<>> ELSE blocks[1] \o ConcatRows(Tail(blocks))

\* the body of the loop "for data_type, data_list in data_by_type.items()"
\* at its k-th key: the embeddings it leaves, or the error it raises
TypeIteration(self, data, present, k) ==
    LET data_type == present[k]
        outputs == [j \in 1..k |-> ModelOutput(self, present[j], data_type, data)]
        failed == {j \in 1..k : outputs[j].kind # "ok"}
        embedding_sizes == [j \in 1..k |-> outputs[j].rows[1].dims]
    IN  IF failed # {}
        THEN outputs[CHOOSE j \in failed : \A i \in failed : j <= i]
        ELSE IF \E j \in 1..k : embedding_sizes[j] # embedding_sizes[1]
        THEN Raise("ModelingError", "different embedding size",
                   SubSeq(present, 1, k), embedding_sizes)
        ELSE IF \E j \in 1..k : Len(outputs[j].rows) # Len(outputs[1].rows)
        THEN \* torch.stack of tensors of unequal size
             Raise("RuntimeError", "stack expects each tensor to be equal size",
                   SubSeq(present, 1, k), [j \in 1..k |-> Len(outputs[j].rows)])
        ELSE Ok(ConcatRows([j \in 1..k |-> outputs[j].rows]))

RECURSIVE TypeLoop(_, _, _, _)
\* the iterations k..n of the loop over data_by_type; the embeddings of the
\* last one are what the batch appends
TypeLoop(self, data, present, k) ==
    LET it == TypeIteration(self, data, present, k) IN
    IF it.kind # "ok" \/ k = Len(present) THEN it
    ELSE TypeLoop(self, data, present, k + 1)

\* one iteration of the batch loop of embed
EmbedBatch(self, docs_batch) ==
    LET data_by_type == _docs_to_data(self, docs_batch) IN
    IF data_by_type.kind # "ok"
    THEN Raise(data_by_type.kind, "conversion", data_by_type.types, <<>>)
    ELSE IF Len(PresentTypes(data_by_type.data)) = 0
    THEN \* the loop body never runs and "embeddings" is unbound at the append
         Raise("UnboundLocalError", "embeddings", <<>>, <<>>)
    ELSE TypeLoop(self, data_by_type.data, PresentTypes(data_by_type.data), 1)

\* a plausible slip: the batches are cut one document short
BatchOfShort(docs, batch_index, batch_size) ==
    SubSeq(docs, batch_index + 1,
           IF batch_index + batch_size - 1 < Len(docs) THEN batch_index + batch_size - 1 ELSE Len(docs))

\* documents[batch_index : batch_index + batch_size]
BatchOf(docs, batch_index, batch_size) ==
    SubSeq(docs, batch_index + 1,
           IF batch_index + batch_size < Len(docs) THEN batch_index + batch_size ELSE Len(docs))

RECURSIVE BatchLoop(_, _, _, _, _)
\* the loop over range(0, len(documents), batch_size), then np.concatenate
BatchLoop(self, docs, batch_size, batch_index, all_embeddings) ==
    IF batch_index >= Len(docs)
    THEN IF Len(all_embeddings) = 0
         THEN Raise("ValueError", "need at least one array to concatenate", <<>>, <<>>)
         ELSE IF \E i \in 1..Len(all_embeddings) :
                     all_embeddings[i][1].dims # all_embeddings[1][1].dims
         THEN Raise("ValueError", "array dimensions must match", <<>>,
                    [i \in 1..Len(all_embeddings) |-> all_embeddings[i][1].dims])
         ELSE Ok(ConcatRows(all_embeddings))
    ELSE LET block == EmbedBatch(self, BatchOf(docs, batch_index, batch_size)) IN
         IF block.kind # "ok" THEN block
         ELSE BatchLoop(self, docs, batch_size, batch_index + batch_size,
                        Append(all_embeddings, block.rows))

\* MultiModalEmbedder.embed; batch_size 0 stands for None
embed(self, docs, batch_size) ==
    BatchLoop(self, docs, IF batch_size # 0 THEN batch_size ELSE self.batch_size, 0, <<>>)

\* the model invocations of the loop body at its k-th key, in order: the
\* passes of the inner loop up to the one that raises, each on a model that exists
IterationCalls(self, data, present, k) ==
    LET failed == {j \in 1..k : ModelOutput(self, present[j], present[k], data).kind # "ok"}
        last == IF failed = {} THEN k ELSE CHOOSE j \in failed : \A i \in failed : j <= i
        n == IF self.models[present[last]].loaded THEN last ELSE last - 1
    IN  [j \in 1..n |->
            [key |-> present[j], method |-> InvokedMethod(self, present[k]),
             data_type |-> present[k]]]

RECURSIVE TypeLoopCalls(_, _, _, _)
\* the model invocations of the iterations k..n of the loop over data_by_type
TypeLoopCalls(self, data, present, k) ==
    IterationCalls(self, data, present, k)
    \o (IF TypeIteration(self, data, present, k).kind # "ok" \/ k = Len(present) THEN <<>>
        ELSE TypeLoopCalls(self, data, present, k + 1))

\* the model invocations of one iteration of the batch loop
EmbedBatchCalls(self, data_by_type) ==
    IF data_by_type.kind # "ok" \/ Len(PresentTypes(data_by_type.data)) = 0 THEN <<>>
    ELSE TypeLoopCalls(self, data_by_type.data, PresentTypes(data_by_type.data), 1)

RECURSIVE BatchLoopCalls(_, _, _, _)
\* the model invocations of the batch loop from batch_index on
BatchLoopCalls(self, docs, batch_size, batch_index) ==
    IF batch_index >= Len(docs) THEN <<>>
    ELSE EmbedBatchCalls(self, _docs_to_data(self, BatchOf(docs, batch_index, batch_size)))
         \o (IF EmbedBatch(self, BatchOf(docs, batch_index, batch_size)).kind # "ok" THEN <<>>
             ELSE BatchLoopCalls(self, docs, batch_size, batch_index + batch_size))

\* the encode / forward invocations embed makes on its models, in order
ModelCalls(self, docs, batch_size) ==
    BatchLoopCalls(self, docs, IF batch_size # 0 THEN batch_size ELSE self.batch_size, 0)

\* MultiModalEmbedder.__init__ for embedding_models given as content type ->
\* identifier (<<>> where the dict has no such key)
MultiModalEmbedder(embedding_models, batch_size, embed_meta_fields) ==
    LET load == [t \in DOMAIN embedding_models |->
                    IF embedding_models[t] = <<>> THEN [kind |-> "ok", model_type |-> "", model |-> NoModel]
                    ELSE IF embedding_models[t][1] = "sentence-transformers" /\ Len(embedding_models[t]) > 1
                    THEN get_sentence_tranformers_model(embedding_models[t])
                    ELSE get_mm_language_model(embedding_models[t],
                                               AutoConfig_from_pretrained(embedding_models[t]), <<>>)]
    IN  [kind |-> IF \E t \in DOMAIN load : load[t].kind # "ok" THEN "ValueError" ELSE "ok",
         models |-> [t \in DOMAIN load |-> load[t].model],
         feature_extractors |-> {t \in DOMAIN load : load[t].model.loaded /\ ~load[t].model.self_contained},
         batch_size |-> batch_size,
         embed_meta_fields |-> embed_meta_fields]

-----------------------------------------------------------------------------
(* haystack/nodes/retriever/multimodal.py: MultiModalRetriever *)

\* a plausible slip: reuse the passage embedder when any passage model matches
ShareEmbedderAnyType(passage_embedding_models, query_type, query_embedding_model) ==
    \E t \in DOMAIN passage_embedding_models :
        passage_embedding_models[t] = query_embedding_model

\* passage_embedding_models.get(query_type, None) == query_embedding_model
ShareEmbedder(passage_embedding_models, query_type, query_embedding_model) ==
    passage_embedding_models[query_type] = query_embedding_model

\* MultiModalRetriever.__init__: the fields it assigns; instance tells the
\* embedder objects apart (1 = the passage embedder)
MultiModalRetriever(args) ==
    LET passage == MultiModalEmbedder(args.passage_embedding_models, args.batch_size,
                                      args.embed_meta_fields)
        shared == ShareEmbedder(args.passage_embedding_models, args.query_type,
                                args.query_embedding_model)
        query == IF shared THEN passage
                 ELSE MultiModalEmbedder(
                          [t \in KnownTypes |->
                              IF t = args.query_type THEN args.query_embedding_model ELSE <<>>],
                          args.batch_size, args.embed_meta_fields)
    IN  [constructed |-> passage.kind = "ok" /\ query.kind = "ok",
         top_k |-> args.top_k,
         scale_score |-> args.scale_score,
         passage_embedder |-> [instance |-> 1, obj |-> passage],
         query_embedder |-> [instance |-> IF shared THEN 1 ELSE 2, obj |-> query],
         document_store |-> [index |-> args.index]]

PyList(elems) == [py |-> "list", elems |-> elems]

\* isinstance(filters, Iterable)
IsIterable(filters) == filters.py \in {"dict", "list", "str"}

\* len(filters)
PyLen(filters) ==
    IF filters.py = "list" THEN Len(filters.elems) ELSE Len(filters.items)

\* list(iter(filters)): a list yields its elements, a dict its keys
PyIter(filters) ==
    IF filters.py = "list" THEN filters.elems
    ELSE [i \in 1..Len(filters.items) |-> PyStr(filters.items[i].key)]

\* a plausible slip: the count of an iterable filters argument is not checked
FiltersListUnchecked(filters, n) ==
    IF ~IsIterable(filters)
    THEN [kind |-> "ok", list |-> [i \in 1..n |-> PyDict(<<>>)]]
    ELSE [kind |-> "ok", list |-> PyIter(filters)]

\* lines 451-460 of retrieve_batch: filters_list for n queries
FiltersList(filters, n) ==
    IF ~IsIterable(filters)
    THEN \* [filters or {}] * len(queries)
         [kind |-> "ok", list |-> [i \in 1..n |-> PyDict(<<>>)]]
    ELSE IF PyLen(filters) # n
         THEN [kind |-> "MultiModalRetrieverError", list |-> <<>>]
         ELSE [kind |-> "ok", list |-> PyIter(filters)]

\* a plausible slip: the filters are paired with the embeddings back to front
ZipReversed(query_embeddings, filters_list) ==
    LET n == IF Len(query_embeddings) < Len(filters_list)
             THEN Len(query_embeddings) ELSE Len(filters_list)
    IN  [i \in 1..n |-> [emb |-> query_embeddings[i], filters |-> filters_list[n + 1 - i]]]

\* zip(query_embeddings, filters_list)
Zip(query_embeddings, filters_list) ==
    LET n == IF Len(query_embeddings) < Len(filters_list)
             THEN Len(query_embeddings) ELSE Len(filters_list)
    IN  [i \in 1..n |-> [emb |-> query_embeddings[i], filters |-> filters_list[i]]]

\* document_store.query_by_embedding: the store's answer, a function of the lookup
query_by_embedding(lookup) == [answer_to |-> lookup]

\* lines 470-492 of retrieve_batch: one lookup per pair of
\* zip(query_embeddings, filters_list), in order
LookupLoop(query_embeddings, filters_list, top_k, index, headers, scale_score) ==
    [i \in 1..Len(Zip(query_embeddings, filters_list)) |->
        [query_emb |-> Zip(query_embeddings, filters_list)[i].emb, top_k |-> top_k,
         filters |-> Zip(query_embeddings, filters_list)[i].filters, index |-> index,
         headers |-> headers, scale_score |-> scale_score]]

\* [Document(content=query, content_type=content_type) for query in queries]
QueryDocs(queries, content_type) ==
    [i \in 1..Len(queries) |-> Document(queries[i], content_type)]

\* what retrieve_batch leaves behind, given its filters_list, the outcome of
\* the embed call and the lookups: the outcome, the embed calls made, the
\* lookups issued and the value returned
RetrieveBatchOutcome(filters_list, query_docs, query_embeddings, lookups) ==
    IF filters_list.kind # "ok"
    THEN [kind |-> filters_list.kind, embed_calls |-> <<>>, lookups |-> <<>>, result |-> <<>>]
    ELSE IF query_embeddings.kind # "ok"
    THEN [kind |-> query_embeddings.kind, embed_calls |-> <<query_docs>>,
          lookups |-> <<>>, result |-> <<>>]
    ELSE [kind |-> "ok", embed_calls |-> <<query_docs>>, lookups |-> lookups,
          result |-> [i \in 1..Len(lookups) |-> query_by_embedding(lookups[i])]]

\* lines 462-468 and 470-480 of retrieve_batch: the defaults, the embed call
\* and the lookups
EmbedAndLookUp(self, query_docs, filters_list, top_k, index, headers, batch_size, scale_score, query_embeddings) ==
    RetrieveBatchOutcome(filters_list, query_docs, query_embeddings,
        LookupLoop(query_embeddings.rows, filters_list.list,
                   IF top_k # 0 THEN top_k ELSE self.top_k,
                   IF index # "" THEN index ELSE self.document_store.index,
                   headers,
                   IF scale_score = "True" THEN TRUE ELSE self.scale_score))

\* MultiModalRetriever.retrieve_batch.  None is 0 for top_k and batch_size,
\* "" for index and "None" for scale_score.
retrieve_batch(self, queries, content_type, filters, top_k, index, headers, batch_size, scale_score) ==
    EmbedAndLookUp(self, QueryDocs(queries, content_type),
                   FiltersList(filters, Len(queries)), top_k, index, headers, batch_size,
                   scale_score,
                   embed(self.query_embedder.obj, QueryDocs(queries, content_type), batch_size))

\* the [0] of retrieve: the sole result list of the batch
FirstResult(out) ==
    IF out.kind # "ok" THEN out
    ELSE [kind |-> "ok", embed_calls |-> out.embed_calls, lookups |-> out.lookups,
          result |-> out.result[1]]

\* MultiModalRetriever.retrieve: retrieve_batch(queries=[query], filters=[filters],
\* batch_size=1)[0]
retrieve(self, query, content_type, filters, top_k, index, headers, scale_score) ==
    FirstResult(retrieve_batch(self, <<query>>, content_type, PyList(<<filters>>), top_k,
                               index, headers, 1, scale_score))

-----------------------------------------------------------------------------
(* haystack/nodes/retriever/multimodal.py: custom_query_by_embedding *)

\* torch.matmul of two vectors
Dot(a, b) ==
    LET RECURSIVE Sum(_)
        Sum(i) == IF i = 0 THEN 0 ELSE a[i] * b[i] + Sum(i - 1)
    IN  Sum(Len(a))

\* The score of a document for a query: the cosine of the two embeddings times
\* exp(logit_scale).  The norm of the query and exp(logit_scale) are the same
\* positive factors for every document of one call, so a score is kept as the
\* pair (dot, sq) standing for dot / sqrt(sq), sq being the squared norm of
\* the document embedding.
Score(query_emb, embedding) ==
    [dot |-> Dot(query_emb, embedding), sq |-> Dot(embedding, embedding)]

\* x < y for two scores: dot / sqrt(sq) compared exactly
ScoreLess(x, y) ==
    IF x.dot >= 0 /\ y.dot >= 0 THEN x.dot * x.dot * y.sq < y.dot * y.dot * x.sq
    ELSE IF x.dot < 0 /\ y.dot < 0 THEN x.dot * x.dot * y.sq > y.dot * y.dot * x.sq
    ELSE x.dot < 0

RECURSIVE InsertDesc(_, _)
\* one step of the stable descending sort: doc goes after every document
\* whose score is not lower than its own
InsertDesc(sorted_docs, doc) ==
    IF Len(sorted_docs) = 0 THEN <<doc>>
    ELSE IF ScoreLess(sorted_docs[1].score, doc.score) THEN <<doc>> \o sorted_docs
    ELSE <<sorted_docs[1]>> \o InsertDesc(Tail(sorted_docs), doc)

RECURSIVE SortedDesc(_, _)
\* sorted(candidate_docs, key=score, reverse=True): the first n documents
\* of candidate_docs in descending order of score, equal scores in list order
SortedDesc(candidate_docs, n) ==
    IF n = 0 THEN <<>>
    ELSE InsertDesc(SortedDesc(candidate_docs, n - 1), candidate_docs[n])

\* the loop that builds candidate_docs: a copy of every document with its score
CandidateDocs(query_emb, document_to_search) ==
    [i \in 1..Len(document_to_search) |->
        [id |-> document_to_search[i].id, embedding |-> document_to_search[i].embedding,
         score |-> Score(query_emb, document_to_search[i].embedding)]]

\* docs[0:top_k] for top_k >= 0
FirstTopK(docs, top_k) == SubSeq(docs, 1, IF top_k < Len(docs) THEN top_k ELSE Len(docs))

\* custom_query_by_embedding, given the documents
\* docstore.get_all_documents(filters, return_embedding=True) returns;
\* query_emb <<>> stands for None
custom_query_by_embedding(document_to_search, query_emb, top_k) ==
    IF Len(query_emb) = 0 THEN [kind |-> "ok", docs |-> <<>>]
    ELSE IF Len(document_to_search) = 0
    THEN \* torch.stack of an empty list
         [kind |-> "RuntimeError", docs |-> <<>>]
    ELSE [kind |-> "ok",
          docs |-> FirstTopK(SortedDesc(CandidateDocs(query_emb, document_to_search),
                                        Len(document_to_search)), top_k)]

-----------------------------------------------------------------------------
(* Inputs and idle values *)

BatchSizeDefault == 16

TextDocA == [content_type |-> "text", content |-> <<"a">>, frame |-> NoFrame, meta |-> <<>>]

TextDocB == [content_type |-> "text", content |-> <<"b", "?">>, frame |-> NoFrame,
             meta |-> << [key |-> <<"n">>, value |-> <<"v">>] >>]

TextDocEmpty == [content_type |-> "text", content |-> <<>>, frame |-> NoFrame, meta |-> <<>>]

TableDoc == [content_type |-> "table", content |-> <<>>,
             frame |-> [columns |-> << <<"c">> >>, values |-> << << <<"x">> >> >>],
             meta |-> <<>>]

ImageDoc == [content_type |-> "image", content |-> <<"p">>, frame |-> NoFrame, meta |-> <<>>]

AudioDoc == [content_type |-> "audio", content |-> <<"s">>, frame |-> NoFrame, meta |-> <<>>]

DocPool == {TextDocA, TextDocB, TextDocEmpty, TableDoc, ImageDoc, AudioDoc}

SeqsUpTo(S, n) == UNION {[1..k -> S] : k \in 0..n}

MiniLM == <<"sentence-transformers", "all-MiniLM-L6-v2">>
Bert == <<"bert-base-uncased">>
VisionBase == <<"facebook", "data2vec-vision-base">>
VisionSmall == <<"local", "data2vec-vision-small">>
Data2VecText == <<"facebook", "data2vec-text-base">>

\* the embedding_models dicts embed is exercised with
EmbeddingModelChoices ==
    {[t \in KnownTypes |-> CASE t = "text" -> m1 [] t = "table" -> m2 [] t = "image" -> m3] :
        m1 \in {<<>>, MiniLM, Bert}, m2 \in {<<>>, Bert}, m3 \in {<<>>, VisionBase, VisionSmall}}

NotCalled == [kind |-> "not called", rows |-> <<>>, msg |-> "", types |-> <<>>, sizes |-> <<>>]

IdleEmbedder == MultiModalEmbedder([t \in KnownTypes |-> <<>>], BatchSizeDefault, <<>>)

IdleRetriever == [constructed |-> FALSE]

IdleCall == [op |-> "none"]

IdleOut == [kind |-> "not called"]

-----------------------------------------------------------------------------
(* SpecEmbed: MultiModalEmbedder.embed on one documents list *)

InitEmbed ==
    /\ \E models \in EmbeddingModelChoices, meta_fields \in {<<>>, << <<"name">> >>} :
          embedder = MultiModalEmbedder(models, BatchSizeDefault, meta_fields)
    /\ documents \in SeqsUpTo(DocPool, MaxDocs)
    /\ embedOut = [bs \in 0..MaxBatch |-> NotCalled]
    /\ retriever = IdleRetriever
    /\ call = IdleCall
    /\ batchOut = IdleOut
    /\ singleOut = IdleOut
    /\ ctorArgs = IdleCall
    /\ lm = ""
    /\ given = {}
    /\ fwdOut = IdleOut
    /\ invoked = [bs \in 0..MaxBatch |-> <<>>]
    /\ dataOut = IdleOut
    /\ convOut = IdleOut
    /\ loadIn = IdleCall
    /\ loadOut = IdleOut
    /\ rankIn = IdleCall
    /\ rankOut = IdleOut

\* embedder.embed(documents, batch_size); 0 stands for batch_size=None
EmbedCall(batch_size) ==
    /\ embedOut' = [embedOut EXCEPT ![batch_size] = embed(embedder, documents, batch_size)]
    /\ invoked' = [invoked EXCEPT ![batch_size] = ModelCalls(embedder, documents, batch_size)]
    /\ UNCHANGED <<embedder, documents, retriever, call, batchOut, singleOut,
                   ctorArgs, lm, given, fwdOut, dataOut, convOut,
                   loadIn, loadOut, rankIn, rankOut>>

NextEmbed == \E batch_size \in 0..MaxBatch : EmbedCall(batch_size)

SpecEmbed == InitEmbed /\ [][NextEmbed]_vars

-----------------------------------------------------------------------------
(* Properties of embed (SpecEmbed) *)

Called(bs) == embedOut[bs].kind # "not called"

\* the batch size embed works with
UsedBatch(bs) == IF bs # 0 THEN bs ELSE embedder.batch_size

DocIndices == 1..Len(documents)

ModelOf(doc) == embedder.models[doc.content_type]

\* every document has a supported content type with a model configured
AllSupported ==
    \A i \in DocIndices :
        documents[i].content_type \in KnownTypes /\ ModelOf(documents[i]).loaded

\* every document has content its converter accepts
AllConvert ==
    \A i \in DocIndices :
        documents[i].content_type \in KnownTypes => DOCUMENT_CONVERTERS(documents[i]).kind = "ok"

\* every generic encoder in use is the wrapper variant of its content type
WrappersFit ==
    \A i \in DocIndices :
        ModelOf(documents[i]).self_contained
        \/ forward(ModelOf(documents[i]).wrapper, FeatureNames(documents[i].content_type)).kind = "ok"

SameDims ==
    \A i, j \in DocIndices : ModelOf(documents[i]).output_dims = ModelOf(documents[j]).output_dims

\* the embedding of one document: its content type's model applied to its payload
EmbeddingOf(doc) ==
    [model |-> ModelOf(doc).id,
     input |-> Payload(embedder.embed_meta_fields, doc, DOCUMENT_CONVERTERS(doc).data),
     dims |-> ModelOf(doc).output_dims]

EmbeddableInput ==
    Len(documents) > 0 /\ AllSupported /\ AllConvert /\ WrappersFit /\ SameDims

\* C1: for documents whose content types all have a model (of one width) and
\* every batch size > 0, embed returns one row per document and row i is the
\* embedding of document i.
C1_RowPerDocumentInInputOrder ==
    \A bs \in DOMAIN embedOut \ {0} :
        (Called(bs) /\ EmbeddableInput)
            => embedOut[bs] = Ok([i \in DocIndices |-> EmbeddingOf(documents[i])])

\* C2: for the same documents, any two batch sizes N # M, both > 0, give the
\* same matrix.
C2_BatchSizeDoesNotChangeResult ==
    \A n, m \in DOMAIN embedOut \ {0} :
        (n # m /\ Called(n) /\ Called(m) /\ EmbeddableInput) => embedOut[n] = embedOut[m]

BatchStarts(ub) == {k \in 0..(Len(documents) - 1) : k % ub = 0}

\* two content types present in the batch have models of different width
DimsDiffer(docs_batch) ==
    \E i, j \in 1..Len(docs_batch) :
        /\ docs_batch[i].content_type # docs_batch[j].content_type
        /\ ModelOf(docs_batch[i]).output_dims # ModelOf(docs_batch[j]).output_dims

\* C3: when the models of two content types present in one batch produce
\* embeddings of different width, embed fails with the ModelingError that
\* reports the sizes, and returns no matrix.
C3_DimensionMismatchRaisesModelingError ==
    \A bs \in DOMAIN embedOut :
        (/\ Called(bs) /\ AllSupported /\ AllConvert /\ WrappersFit
         /\ \E k \in BatchStarts(UsedBatch(bs)) :
                DimsDiffer(BatchOf(documents, k, UsedBatch(bs))))
            => /\ embedOut[bs].kind = "ModelingError"
               /\ embedOut[bs].msg = "different embedding size"

Unknown(i) == documents[i].content_type \notin KnownTypes

FirstUnknown == CHOOSE i \in DocIndices : Unknown(i) /\ \A j \in 1..(i - 1) : ~Unknown(j)

\* start of the batch that holds document i
BatchStartOf(i, ub) == ((i - 1) \div ub) * ub

\* every batch before the one holding document i embeds, and the documents
\* before i in its own batch convert
NothingRaisedBefore(i, ub) ==
    /\ \A k \in BatchStarts(ub) :
          k < BatchStartOf(i, ub) => EmbedBatch(embedder, BatchOf(documents, k, ub)).kind = "ok"
    /\ DocsToData(embedder.embed_meta_fields,
                  SubSeq(documents, BatchStartOf(i, ub) + 1, i - 1), EmptyData).kind = "ok"

UnknownTypeError(content_type) ==
    Raise("MultiModalRetrieverError", "conversion", <<content_type>> \o ContentTypes, <<>>)

\* C4 as stated: a document of unsupported content type, at any position,
\* makes embed fail with the error naming that content type.
C4_UnknownTypeAlwaysNamed ==
    \A bs \in DOMAIN embedOut :
        (Called(bs) /\ \E i \in DocIndices : Unknown(i))
            => \E i \in DocIndices :
                   Unknown(i) /\ embedOut[bs] = UnknownTypeError(documents[i].content_type)

\* C4 (amended): a document of unsupported content type makes embed fail as a
\* whole, no matrix is returned; the error is the unknown-content-type error
\* of the first such document whenever nothing raised before it (the earlier
\* batches embedded and the earlier documents of its batch converted).
C4_UnknownTypeFailsWholeCall ==
    \A bs \in DOMAIN embedOut :
        (Called(bs) /\ \E i \in DocIndices : Unknown(i))
            => /\ embedOut[bs].kind # "ok"
               /\ embedOut[bs].rows = <<>>
               /\ NothingRaisedBefore(FirstUnknown, UsedBatch(bs))
                     => embedOut[bs] = UnknownTypeError(documents[FirstUnknown].content_type)

\* an unsupported document in a later batch, after a batch that embedded
C4_Witness ==
    \E bs \in DOMAIN embedOut :
        /\ Called(bs)
        /\ \E i \in DocIndices : Unknown(i)
        /\ BatchStartOf(FirstUnknown, UsedBatch(bs)) > 0
        /\ NothingRaisedBefore(FirstUnknown, UsedBatch(bs))
        /\ embedOut[bs].kind = "MultiModalRetrieverError"

\* C14: every model invocation embed makes goes through encode exactly when
\* the content type of the invoked model has no feature extractor, and through
\* forward otherwise, also in batches that mix both kinds of model.
C14_MethodFollowsOwnContentType ==
    \A bs \in DOMAIN embedOut :
        Called(bs)
            => \A c \in 1..Len(invoked[bs]) :
                  (invoked[bs][c].method = "encode")
                      <=> (invoked[bs][c].key \notin embedder.feature_extractors)

\* document i has a supported content type with no model in the embedder
Orphan(i) == documents[i].content_type \in KnownTypes /\ ~ModelOf(documents[i]).loaded

\* every generic encoder among the models of the documents is the wrapper
\* variant of its content type, and all models of the documents have one width
LoadedModelsFit ==
    /\ \A i \in DocIndices :
          (ModelOf(documents[i]).loaded /\ ~ModelOf(documents[i]).self_contained)
              => forward(ModelOf(documents[i]).wrapper,
                         FeatureNames(documents[i].content_type)).kind = "ok"
    /\ \A i, j \in DocIndices :
          (ModelOf(documents[i]).loaded /\ ModelOf(documents[j]).loaded)
              => ModelOf(documents[i]).output_dims = ModelOf(documents[j]).output_dims

\* C15: when the first batch holds a document of a supported content type
\* that has no model, embed fails with the ModelingError that names an orphan
\* content type of that batch, whatever other documents the batch holds.
C15_OrphanTypeRaisesModelingError ==
    \A bs \in DOMAIN embedOut :
        (/\ Called(bs)
         /\ \A i \in DocIndices : documents[i].content_type \in KnownTypes
         /\ AllConvert /\ LoadedModelsFit
         /\ \E i \in DocIndices : i <= UsedBatch(bs) /\ Orphan(i))
            => /\ embedOut[bs].kind = "ModelingError"
               /\ embedOut[bs].msg = "no such model was initialized"
               /\ \E i \in DocIndices :
                     /\ i <= UsedBatch(bs) /\ Orphan(i)
                     /\ embedOut[bs].types = <<documents[i].content_type>>

-----------------------------------------------------------------------------
(* SpecRetrieve: retrieve_batch and retrieve of one retriever on one set of
   caller arguments *)

TopKDefault == 10

CtorArgs(query_type, query_embedding_model, passage_embedding_models, scale_score) ==
    [query_type |-> query_type, query_embedding_model |-> query_embedding_model,
     passage_embedding_models |-> passage_embedding_models, top_k |-> TopKDefault,
     batch_size |-> BatchSizeDefault, embed_meta_fields |-> << <<"name">> >>,
     scale_score |-> scale_score, index |-> "document"]

Models(text, table, image) ==
    [t \in KnownTypes |-> CASE t = "text" -> text [] t = "table" -> table [] t = "image" -> image]

\* the constructor arguments of the retrievers the calls are made on
RetrieverArgs ==
    { CtorArgs("text", Bert, Models(Bert, <<>>, <<>>), TRUE),
      CtorArgs("text", MiniLM, Models(Bert, <<>>, VisionBase), TRUE),
      CtorArgs("image", VisionBase, Models(Bert, <<>>, VisionBase), FALSE),
      CtorArgs("text", Bert, Models(<<>>, Bert, <<>>), FALSE) }

\* the retrievers the calls are made on
RetrieverChoices == {MultiModalRetriever(args) : args \in RetrieverArgs}

QueryPool == {<<"a">>, <<"b", "?">>, <<>>}

FilterKeys == <<"x", "y", "z">>

\* the filter mapping with the first k keys
FilterDict(k) == PyDict([i \in 1..k |-> [key |-> FilterKeys[i], value |-> i]])

FilterArgs ==
    {PyNone} \cup {FilterDict(k) : k \in 0..MaxFilterKeys}
             \cup {PyList(elems) : elems \in SeqsUpTo({PyNone, FilterDict(1)}, MaxQueries)}

CallArgs ==
    [queries : SeqsUpTo(QueryPool, MaxQueries), content_type : {"text", "image"},
     filters : FilterArgs, top_k : {0, 5}, index : {"", "other"}, headers : {"None"},
     batch_size : {0, 1}, scale_score : {"None", "True", "False"}]

InitRetrieve ==
    /\ ctorArgs \in RetrieverArgs
    /\ retriever = MultiModalRetriever(ctorArgs)
    /\ retriever \in RetrieverChoices
    /\ call \in CallArgs
    /\ batchOut = IdleOut
    /\ singleOut = IdleOut
    /\ embedder = IdleEmbedder
    /\ documents = <<>>
    /\ embedOut = [bs \in 0..0 |-> NotCalled]
    /\ lm = ""
    /\ given = {}
    /\ fwdOut = IdleOut
    /\ invoked = <<>>
    /\ dataOut = IdleOut
    /\ convOut = IdleOut
    /\ loadIn = IdleCall
    /\ loadOut = IdleOut
    /\ rankIn = IdleCall
    /\ rankOut = IdleOut

RetrieveBatchCall ==
    /\ batchOut' = retrieve_batch(retriever, call.queries, call.content_type, call.filters,
                                  call.top_k, call.index, call.headers, call.batch_size,
                                  call.scale_score)
    /\ UNCHANGED <<embedder, documents, embedOut, retriever, call, singleOut,
                   ctorArgs, lm, given, fwdOut, invoked, dataOut, convOut,
                   loadIn, loadOut, rankIn, rankOut>>

\* retrieve takes one query and one filter (a mapping or None)
RetrieveCall ==
    /\ Len(call.queries) >= 1
    /\ call.filters.py \in {"None", "dict"}
    /\ singleOut' = retrieve(retriever, call.queries[1], call.content_type, call.filters,
                             call.top_k, call.index, call.headers, call.scale_score)
    /\ UNCHANGED <<embedder, documents, embedOut, retriever, call, batchOut,
                   ctorArgs, lm, given, fwdOut, invoked, dataOut, convOut,
                   loadIn, loadOut, rankIn, rankOut>>

NextRetrieve == RetrieveBatchCall \/ RetrieveCall

SpecRetrieve == InitRetrieve /\ [][NextRetrieve]_vars

-----------------------------------------------------------------------------
(* SpecConstruct: MultiModalRetriever.__init__ *)

CtorChoices ==
    {CtorArgs(qt, qm, pm, ss) :
        qt \in KnownTypes, qm \in {MiniLM, Bert, VisionBase, Data2VecText},
        pm \in EmbeddingModelChoices, ss \in BOOLEAN}

InitConstruct ==
    /\ ctorArgs \in CtorChoices
    /\ retriever = IdleRetriever
    /\ call = IdleCall
    /\ batchOut = IdleOut
    /\ singleOut = IdleOut
    /\ embedder = IdleEmbedder
    /\ documents = <<>>
    /\ embedOut = [bs \in 0..0 |-> NotCalled]
    /\ lm = ""
    /\ given = {}
    /\ fwdOut = IdleOut
    /\ invoked = <<>>
    /\ dataOut = IdleOut
    /\ convOut = IdleOut
    /\ loadIn = IdleCall
    /\ loadOut = IdleOut
    /\ rankIn = IdleCall
    /\ rankOut = IdleOut

Construct ==
    /\ retriever' = MultiModalRetriever(ctorArgs)
    /\ UNCHANGED <<embedder, documents, embedOut, call, batchOut, singleOut,
                   ctorArgs, lm, given, fwdOut, invoked, dataOut, convOut,
                   loadIn, loadOut, rankIn, rankOut>>

NextConstruct == Construct

SpecConstruct == InitConstruct /\ [][NextConstruct]_vars

-----------------------------------------------------------------------------
(* SpecForward: MultiModalLanguageModel.forward on one wrapper variant *)

ArgNames == {"input_ids", "token_type_ids", "attention_mask", "pixel_values",
             "bool_masked_pos", "head_mask", "labels"}

InitForward ==
    /\ lm \in Wrappers
    /\ given \in SUBSET ArgNames
    /\ fwdOut = IdleOut
    /\ retriever = IdleRetriever
    /\ call = IdleCall
    /\ batchOut = IdleOut
    /\ singleOut = IdleOut
    /\ embedder = IdleEmbedder
    /\ documents = <<>>
    /\ embedOut = [bs \in 0..0 |-> NotCalled]
    /\ ctorArgs = IdleCall
    /\ invoked = <<>>
    /\ dataOut = IdleOut
    /\ convOut = IdleOut
    /\ loadIn = IdleCall
    /\ loadOut = IdleOut
    /\ rankIn = IdleCall
    /\ rankOut = IdleOut

ForwardCall ==
    /\ fwdOut' = forward(lm, given)
    /\ UNCHANGED <<embedder, documents, embedOut, retriever, call, batchOut, singleOut,
                   ctorArgs, lm, given, invoked, dataOut, convOut,
                   loadIn, loadOut, rankIn, rankOut>>

NextForward == ForwardCall

SpecForward == InitForward /\ [][NextForward]_vars

-----------------------------------------------------------------------------
(* SpecLoad: get_mm_language_model on one identifier, for each configuration
   the hub may hold for it *)

\* config.model_type as the hub reports it: None, empty, or a family name
ModelTypePool ==
    {PyNone} \cup
    {PyStr(family) : family \in {"", "bert", "BERT", "clip", "data2vec-text", "data2vec-vision",
                                 "Data2Vec-Vision", "automodel",
                                 "data2vectextforquestionanswering",
                                 "data2vecvisionforimageclassification"}}

NamePool == {<<>>, Bert, VisionBase, Data2VecText}

ModelKwargsPool ==
    { <<>>,
      << [key |-> "add_pooling_layer", value |-> "False"] >>,
      << [key |-> "revision", value |-> "main"] >> }

InitLoad ==
    /\ loadIn \in [name : NamePool,
                   config : [model_type : ModelTypePool, output_dims : {768}],
                   model_kwargs : ModelKwargsPool]
    /\ loadOut = IdleOut
    /\ embedder = IdleEmbedder
    /\ documents = <<>>
    /\ embedOut = [bs \in 0..0 |-> NotCalled]
    /\ retriever = IdleRetriever
    /\ call = IdleCall
    /\ batchOut = IdleOut
    /\ singleOut = IdleOut
    /\ ctorArgs = IdleCall
    /\ lm = ""
    /\ given = {}
    /\ fwdOut = IdleOut
    /\ invoked = <<>>
    /\ dataOut = IdleOut
    /\ convOut = IdleOut
    /\ rankIn = IdleCall
    /\ rankOut = IdleOut

LoadCall ==
    /\ loadOut' = get_mm_language_model(loadIn.name, loadIn.config, loadIn.model_kwargs)
    /\ UNCHANGED <<embedder, documents, embedOut, retriever, call, batchOut, singleOut,
                   ctorArgs, lm, given, fwdOut, invoked, dataOut, convOut,
                   loadIn, rankIn, rankOut>>

NextLoad == LoadCall

SpecLoad == InitLoad /\ [][NextLoad]_vars

-----------------------------------------------------------------------------
(* SpecConvert: _docs_to_data of one embedder on one list of documents, and
   the converter of the first document *)

\* doc.meta: absent or empty, one field, two fields
MetaPool ==
    { <<>>,
      << [key |-> <<"n">>, value |-> <<"v">>] >>,
      << [key |-> <<"n">>, value |-> <<"v">>], [key |-> <<"d">>, value |-> <<"w">>] >> }

ConvertPool ==
    {[content_type |-> "text", content |-> content, frame |-> NoFrame, meta |-> meta] :
        content \in SeqsUpTo({"a", "?"}, MaxStrLen), meta \in MetaPool}
    \cup {[TableDoc EXCEPT !.meta = meta] : meta \in MetaPool}
    \cup {[ImageDoc EXCEPT !.meta = meta] : meta \in MetaPool}
    \cup {AudioDoc}

InitConvert ==
    /\ \E meta_fields \in {<<>>, << <<"name">> >>} :
          embedder = MultiModalEmbedder(Models(MiniLM, Bert, VisionBase), BatchSizeDefault,
                                        meta_fields)
    /\ documents \in SeqsUpTo(ConvertPool, MaxConvDocs)
    /\ dataOut = IdleOut
    /\ convOut = IdleOut
    /\ embedOut = [bs \in 0..0 |-> NotCalled]
    /\ retriever = IdleRetriever
    /\ call = IdleCall
    /\ batchOut = IdleOut
    /\ singleOut = IdleOut
    /\ ctorArgs = IdleCall
    /\ lm = ""
    /\ given = {}
    /\ fwdOut = IdleOut
    /\ invoked = <<>>
    /\ loadIn = IdleCall
    /\ loadOut = IdleOut
    /\ rankIn = IdleCall
    /\ rankOut = IdleOut

\* embedder._docs_to_data(documents): the outcome and the keys of the dict returned
DocsToDataCall ==
    /\ dataOut' = [kind |-> _docs_to_data(embedder, documents).kind,
                   data |-> _docs_to_data(embedder, documents).data,
                   keys |-> PresentTypes(_docs_to_data(embedder, documents).data)]
    /\ UNCHANGED <<embedder, documents, embedOut, retriever, call, batchOut, singleOut,
                   ctorArgs, lm, given, fwdOut, invoked, convOut,
                   loadIn, loadOut, rankIn, rankOut>>

\* DOCUMENT_CONVERTERS[doc.content_type](doc) for the first document
ConverterCall ==
    /\ Len(documents) >= 1
    /\ convOut' = IF documents[1].content_type \in KnownTypes
                  THEN DOCUMENT_CONVERTERS(documents[1])
                  ELSE [kind |-> "KeyError", data |-> <<>>]
    /\ UNCHANGED <<embedder, documents, embedOut, retriever, call, batchOut, singleOut,
                   ctorArgs, lm, given, fwdOut, invoked, dataOut,
                   loadIn, loadOut, rankIn, rankOut>>

NextConvert == DocsToDataCall \/ ConverterCall

SpecConvert == InitConvert /\ [][NextConvert]_vars

-----------------------------------------------------------------------------
(* SpecRank: custom_query_by_embedding on the documents one store returns *)

\* the embeddings stored with the documents
EmbeddingPool == {<<1, 0>>, <<0, 1>>, <<1, 1>>, <<-1, 0>>}

\* the answers of docstore.get_all_documents: documents with ids in store order
StoreAnswers ==
    {[i \in 1..Len(embeddings) |-> [id |-> i, embedding |-> embeddings[i]]] :
        embeddings \in SeqsUpTo(EmbeddingPool, MaxCandidates)}

InitRank ==
    /\ rankIn \in [document_to_search : StoreAnswers,
                   query_emb : {<<>>, <<1, 0>>, <<1, 1>>},
                   top_k : {1, 2, TopKDefault}]
    /\ rankOut = IdleOut
    /\ embedder = IdleEmbedder
    /\ documents = <<>>
    /\ embedOut = [bs \in 0..0 |-> NotCalled]
    /\ retriever = IdleRetriever
    /\ call = IdleCall
    /\ batchOut = IdleOut
    /\ singleOut = IdleOut
    /\ ctorArgs = IdleCall
    /\ lm = ""
    /\ given = {}
    /\ fwdOut = IdleOut
    /\ invoked = <<>>
    /\ dataOut = IdleOut
    /\ convOut = IdleOut
    /\ loadIn = IdleCall
    /\ loadOut = IdleOut

RankCall ==
    /\ rankOut' = custom_query_by_embedding(rankIn.document_to_search, rankIn.query_emb,
                                            rankIn.top_k)
    /\ UNCHANGED <<embedder, documents, embedOut, retriever, call, batchOut, singleOut,
                   ctorArgs, lm, given, fwdOut, invoked, dataOut, convOut,
                   loadIn, loadOut, rankIn>>

NextRank == RankCall

SpecRank == InitRank /\ [][NextRank]_vars

-----------------------------------------------------------------------------
(* Properties of retrieve_batch and retrieve (SpecRetrieve) *)

BatchCalled == batchOut.kind # "not called"

SingleCalled == singleOut.kind # "not called"

NQueries == Len(call.queries)

QueryModel == retriever.query_embedder.obj.models[call.content_type]

QueryDoc(i) == Document(call.queries[i], call.content_type)

\* the queries can be embedded: there is one at least, the query embedder has
\* a model of the fitting variant for their content type, every one converts
QueriesEmbeddable ==
    /\ NQueries >= 1
    /\ QueryModel.loaded
    /\ QueryModel.self_contained
          \/ forward(QueryModel.wrapper, FeatureNames(call.content_type)).kind = "ok"
    /\ \A i \in 1..NQueries : DOCUMENT_CONVERTERS(QueryDoc(i)).kind = "ok"

\* the embedding of query i: the query model applied to its converted payload
QueryEmbedding(i) ==
    [model |-> QueryModel.id,
     input |-> Payload(retriever.query_embedder.obj.embed_meta_fields, QueryDoc(i),
                       DOCUMENT_CONVERTERS(QueryDoc(i)).data),
     dims |-> QueryModel.output_dims]

\* C5: one shared filter mapping is broadcast: N result lists, and every
\* lookup receives that mapping, whatever its number of keys.
C5_SingleFilterIsBroadcast ==
    (/\ BatchCalled /\ call.filters.py = "dict" /\ Len(call.filters.items) >= 1
     /\ QueriesEmbeddable)
        => /\ batchOut.kind = "ok"
           /\ Len(batchOut.result) = NQueries
           /\ Len(batchOut.lookups) = NQueries
           /\ \A i \in 1..Len(batchOut.lookups) : batchOut.lookups[i].filters = call.filters

\* C6: with a list of N filters for N queries, exactly N lookups are issued in
\* query order, lookup i with the embedding of query i and filter i, and the N
\* answers are returned in that order.
C6_LookupPerQueryInOrder ==
    (/\ BatchCalled /\ call.filters.py = "list"
     /\ Len(call.filters.elems) = NQueries /\ QueriesEmbeddable)
        => /\ batchOut.kind = "ok"
           /\ Len(batchOut.lookups) = NQueries
           /\ \A i \in 1..NQueries :
                 /\ batchOut.lookups[i].query_emb = QueryEmbedding(i)
                 /\ batchOut.lookups[i].filters = call.filters.elems[i]
           /\ Len(batchOut.result) = NQueries
           /\ \A i \in 1..NQueries :
                 batchOut.result[i] = query_by_embedding(batchOut.lookups[i])

\* two different queries with two different filters, embedded one per batch
C6_Witness ==
    /\ BatchCalled /\ batchOut.kind = "ok" /\ call.filters.py = "list"
    /\ NQueries = 2 /\ Len(call.filters.elems) = 2 /\ call.batch_size = 1
    /\ call.queries[1] # call.queries[2]
    /\ call.filters.elems[1] # call.filters.elems[2]
    /\ Len(batchOut.lookups) = 2

\* C7: a filters list whose length differs from the number of queries raises
\* the count-mismatch error before any query is embedded and before any
\* lookup is issued.
C7_CountMismatchFailsFirst ==
    (BatchCalled /\ call.filters.py = "list" /\ Len(call.filters.elems) # NQueries)
        => /\ batchOut.kind = "MultiModalRetrieverError"
           /\ batchOut.embed_calls = <<>>
           /\ batchOut.lookups = <<>>
           /\ batchOut.result = <<>>

\* two embeddable queries with one filter
C7_Witness ==
    /\ BatchCalled /\ call.filters.py = "list"
    /\ NQueries = 2 /\ Len(call.filters.elems) = 1 /\ QueriesEmbeddable
    /\ batchOut.kind = "MultiModalRetrieverError"

\* None and the empty mapping both mean "no filter"
NoFilterAsDict(f) == IF f.py = "None" THEN PyDict(<<>>) ELSE f

SameLookup(l1, l2) ==
    [l1 EXCEPT !.filters = NoFilterAsDict(@)] = [l2 EXCEPT !.filters = NoFilterAsDict(@)]

\* C8: retrieve(q, f, ...) issues the same lookup and returns the same result
\* as the sole element of retrieve_batch([q], f, ..., batch_size=1).
C8_RetrieveIsSingletonBatch ==
    (/\ BatchCalled /\ SingleCalled /\ NQueries = 1 /\ call.batch_size = 1
     /\ call.filters.py \in {"None", "dict"} /\ QueriesEmbeddable)
        => /\ singleOut.kind = batchOut.kind
           /\ Len(singleOut.lookups) = Len(batchOut.lookups)
           /\ \A i \in 1..Len(singleOut.lookups) :
                 SameLookup(singleOut.lookups[i], batchOut.lookups[i])
           /\ singleOut.kind = "ok"
                 => /\ Len(batchOut.result) = 1
                    /\ SameLookup(singleOut.result.answer_to, batchOut.result[1].answer_to)

\* C11: retrieve_batch wraps every query into a Document whose content type
\* is the query_type the retriever was constructed with, whatever content_type
\* the caller passes or leaves at its default.
C11_QueryDocsHaveConfiguredType ==
    BatchCalled
        => \A c \in 1..Len(batchOut.embed_calls) :
              /\ Len(batchOut.embed_calls[c]) = NQueries
              /\ \A i \in 1..NQueries :
                    /\ batchOut.embed_calls[c][i].content = call.queries[i]
                    /\ batchOut.embed_calls[c][i].content_type = ctorArgs.query_type

\* the value of an argument that may be None
ScaleScoreGiven == IF call.scale_score = "None" THEN ctorArgs.scale_score
                   ELSE call.scale_score = "True"

TopKGiven == IF call.top_k = 0 THEN ctorArgs.top_k ELSE call.top_k

\* C20: every lookup receives the caller's scale_score and top_k when they are
\* supplied and the construction-time defaults only when they are None; a
\* per-call scale_score=False reaches the store as False.
C20_PerCallValuesReachTheStore ==
    BatchCalled
        => \A i \in 1..Len(batchOut.lookups) :
              /\ batchOut.lookups[i].top_k = TopKGiven
              /\ batchOut.lookups[i].scale_score = ScaleScoreGiven

-----------------------------------------------------------------------------
(* Properties of forward (SpecForward) *)

\* the mandatory and optional names of each variant, as documented
DocumentedInputs ==
    [w \in Wrappers |->
        IF w = "ImageLanguageModel"
        THEN [mandatory |-> {"pixel_values"}, optional |-> {"bool_masked_pos", "head_mask"}]
        ELSE [mandatory |-> {"input_ids", "token_type_ids", "attention_mask"}, optional |-> {}]]

\* C9: forward reaches the inference hook (and the underlying model) exactly
\* when the supplied names include the mandatory set and stay within
\* mandatory-union-optional; otherwise it raises a ModelingError naming the
\* supplied and the expected names and the model is never called.
C9_ForwardValidatesNames ==
    fwdOut.kind # "not called"
        => LET mandatory == DocumentedInputs[lm].mandatory
               all == mandatory \cup DocumentedInputs[lm].optional
           IN  IF mandatory \subseteq given /\ given \subseteq all
               THEN fwdOut.kind = "ok" /\ fwdOut.model_calls = 1
               ELSE /\ fwdOut.kind = "ModelingError"
                    /\ fwdOut.model_calls = 0
                    /\ fwdOut.supplied = given
                    /\ fwdOut.expected = all
                    /\ fwdOut.mandatory = mandatory

\* every mandatory name supplied, together with a name the variant does not know
C9_Witness ==
    /\ fwdOut.kind = "ModelingError"
    /\ lm = "ImageLanguageModel"
    /\ {"pixel_values", "labels"} \subseteq given
    /\ fwdOut.model_calls = 0

-----------------------------------------------------------------------------
(* Properties of MultiModalRetriever.__init__ (SpecConstruct) *)

SameInstance == retriever.query_embedder.instance = retriever.passage_embedder.instance

\* a separate embedder holding only the query content type's model
SeparateQueryEmbedder ==
    /\ ~SameInstance
    /\ \A t \in KnownTypes :
          retriever.query_embedder.obj.models[t].loaded <=> t = ctorArgs.query_type
    /\ retriever.query_embedder.obj.models[ctorArgs.query_type].id = ctorArgs.query_embedding_model

\* C10 as stated: the query embedder is the passage embedder when the query
\* model identifier equals the model of any passage content type, and a
\* separate embedder otherwise.
C10_SharedWhenAnyPassageModelMatches ==
    retriever.constructed
        => IF \E t \in KnownTypes :
                  ctorArgs.passage_embedding_models[t] = ctorArgs.query_embedding_model
           THEN SameInstance
           ELSE SeparateQueryEmbedder

\* C10 (amended): the query embedder is the passage embedder when the passage
\* model configured for the query content type equals the query model
\* identifier, and a separate embedder holding only the query content type's
\* model otherwise.
C10_SharedWhenQueryTypeModelMatches ==
    retriever.constructed
        => IF ctorArgs.passage_embedding_models[ctorArgs.query_type]
                  = ctorArgs.query_embedding_model
           THEN SameInstance /\ retriever.query_embedder.obj = retriever.passage_embedder.obj
           ELSE SeparateQueryEmbedder

\* the query model is the passage model of another content type only
C10_Witness ==
    /\ retriever.constructed
    /\ \E t \in KnownTypes :
          /\ t # ctorArgs.query_type
          /\ ctorArgs.passage_embedding_models[t] = ctorArgs.query_embedding_model
    /\ ctorArgs.passage_embedding_models[ctorArgs.query_type] # ctorArgs.query_embedding_model
    /\ SeparateQueryEmbedder

-----------------------------------------------------------------------------
(* Properties of get_mm_language_model (SpecLoad) *)

LoadCalled == loadOut.kind # "not called"

ValidName == Len(loadIn.name) > 0

\* the configuration reports a family name (possibly empty), not None
FamilyReported == loadIn.config.model_type.py = "str"

\* the family name the alias table is searched for
Family == StrLower(loadIn.config.model_type.str)

\* the call reached the registry with a key that is not registered
UnregisteredKey ==
    /\ LoadCalled /\ ValidName /\ FamilyReported
    /\ ResolveModelType(loadIn.config) \notin DOMAIN HUGGINGFACE_TO_HAYSTACK

\* the error names the identifier and the detected type and lists the
\* supported keys; nothing was instantiated, no weights were loaded
DescriptiveLoadError ==
    /\ loadOut.name = loadIn.name
    /\ loadOut.model_type = ResolveModelType(loadIn.config)
    /\ loadOut.supported = RegistryKeys
    /\ loadOut.instantiated = <<>>
    /\ ~loadOut.model.loaded

\* C12 as stated: when the resolved architecture key is not in
\* HUGGINGFACE_TO_HAYSTACK, loading fails with a ModelingError naming the
\* identifier and the detected type and listing the supported keys, and no
\* wrapper is instantiated and no weights are loaded.
C12_UnregisteredKeyRaisesModelingError ==
    UnregisteredKey => loadOut.kind = "ModelingError" /\ DescriptiveLoadError

\* C12 (amended): when the resolved architecture key is not in
\* HUGGINGFACE_TO_HAYSTACK, loading fails with a ValueError naming the
\* identifier and the detected type and listing the supported keys, and no
\* wrapper is instantiated and no weights are loaded.
C12_UnregisteredKeyRaisesValueError ==
    UnregisteredKey => loadOut.kind = "ValueError" /\ DescriptiveLoadError

\* a checkpoint of the data2vec-text family, whose alias is not a registry key
C12_Witness ==
    /\ UnregisteredKey
    /\ loadIn.config.model_type = PyStr("data2vec-text")
    /\ loadOut.kind = "ValueError"
    /\ loadOut.supported = RegistryKeys

\* the family is missing, empty, or not a key of the alias table
FamilyAbsent == ~FamilyReported \/ Family \notin DOMAIN HUGGINGFACE_CAPITALIZE

\* C13: when the reported architecture family is absent from the alias table
\* (missing and empty included), the loader logs a warning (a record of level
\* warning or above), falls back to the AutoModel key and instantiates the
\* text wrapper for it instead of failing.
C13_AbsentFamilyFallsBackToAutoModel ==
    (LoadCalled /\ ValidName /\ FamilyAbsent)
        => /\ loadOut.kind = "ok"
           /\ loadOut.model_type = "AutoModel"
           /\ Len(loadOut.instantiated) = 1
           /\ loadOut.instantiated[1].class = "TextLanguageModel"
           /\ loadOut.instantiated[1].from_pretrained.model_class = "AutoModel"
           /\ \E i \in 1..Len(loadOut.logs) : loadOut.logs[i].level \in {"warning", "error"}

\* C19: for every family name that is a key of HUGGINGFACE_CAPITALIZE, the
\* alias is a key of HUGGINGFACE_TO_HAYSTACK and get_mm_language_model
\* instantiates the wrapper registered for it, never raising the
\* unsupported-type error.
C19_EveryAliasIsRegistered ==
    (LoadCalled /\ ValidName /\ FamilyReported /\ Family \in DOMAIN HUGGINGFACE_CAPITALIZE)
        => /\ HUGGINGFACE_CAPITALIZE[Family] \in DOMAIN HUGGINGFACE_TO_HAYSTACK
           /\ loadOut.kind = "ok"
           /\ Len(loadOut.instantiated) = 1
           /\ loadOut.instantiated[1].class = HUGGINGFACE_TO_HAYSTACK[HUGGINGFACE_CAPITALIZE[Family]]

-----------------------------------------------------------------------------
(* Properties of _docs_to_data and the converters (SpecConvert) *)

\* the documents of one content type, in input order
GroupOf(t) == SelectSeq(documents, LAMBDA doc : doc.content_type = t)

\* the names of the metadata fields of a document, in the order of its meta
FieldNames(doc) == [i \in 1..Len(doc.meta) |-> doc.meta[i].key]

\* the payload C16 describes for one document
PrefixedPayload(doc) ==
    IF doc.content_type \in {"text", "table"} /\ Len(doc.meta) > 0
    THEN Join(FieldNames(doc), <<" ">>) \o <<" ">> \o DOCUMENT_CONVERTERS(doc).data
    ELSE DOCUMENT_CONVERTERS(doc).data

C17_TextConverterStripsOneQuestionMark ==
    (convOut.kind # "not called" /\ documents[1].content_type = "text")
        => /\ convOut.kind = "ok"
           /\ LET content == documents[1].content
               IN  convOut.data =
                      IF Len(content) > 0 /\ content[Len(content)] = "?"
                      THEN SubSeq(content, 1, Len(content) - 1)
                      ELSE content

-----------------------------------------------------------------------------
(* Properties of custom_query_by_embedding (SpecRank) *)

RankCalled == rankOut.kind # "not called"

NCandidates == Len(rankIn.document_to_search)

\* the score of the stored document with the given id for the query of the call
ScoreOf(id) == Score(rankIn.query_emb, rankIn.document_to_search[id].embedding)

\* the stored document with id a is ranked before the one with id b: its
\* score is higher, or the scores are equal and a precedes b in the store
RankedBefore(a, b) ==
    ScoreLess(ScoreOf(b), ScoreOf(a))
    \/ (~ScoreLess(ScoreOf(a), ScoreOf(b)) /\ a < b)

\* C18: custom_query_by_embedding returns min(top_k, number of candidates)
\* documents, the best ranked candidates in descending order of score with
\* equal scores in store order; a None query embedding gives the empty list.
C18_RankedStableTopK ==
    RankCalled
        => /\ rankOut.kind = "ok"
           /\ IF Len(rankIn.query_emb) = 0 THEN rankOut.docs = <<>>
              ELSE /\ Len(rankOut.docs) = IF rankIn.top_k < NCandidates
                                          THEN rankIn.top_k ELSE NCandidates
                   /\ \A i \in 1..Len(rankOut.docs) :
                         /\ rankOut.docs[i].id \in 1..NCandidates
                         /\ rankOut.docs[i].embedding
                               = rankIn.document_to_search[rankOut.docs[i].id].embedding
                         /\ rankOut.docs[i].score = ScoreOf(rankOut.docs[i].id)
                         \* exactly i - 1 candidates are ranked before the i-th result
                         /\ Cardinality({b \in 1..NCandidates :
                                           RankedBefore(b, rankOut.docs[i].id)}) = i - 1

====
